---- MODULE Spec2Model ----
(***************************************************************************)
(* The notebook 2-Intermediate/2.2-Pretrained-ResNet-Imagenet.ipynb as a   *)
(* state machine.  The state is the kernel's namespace (model, class_idx,  *)
(* img, output, class_id), the position in the notebook and the uncaught   *)
(* exception, if any.  One action per code cell.                           *)
(*                                                                         *)
(* Spec      the cells run top to bottom ("Run All"), stopping at the      *)
(*           first uncaught exception.                                     *)
(* SpecCall  the namespace after the set-up cells, driven by a caller who  *)
(*           reopens images and evaluates model(preproc(x)) on any image.  *)
(*                                                                         *)
(* Pixels are abstracted to the identity of the picture (px); sizes,       *)
(* modes, shapes, the crop box, the score vector and the label table are   *)
(* explicit.                                                               *)
(***************************************************************************)
EXTENDS Integers, Sequences, FiniteSets, TLC

VARIABLES pc, err, model, class_idx, img, output, class_id, labels,
          ret, arg, fetched, opened, execs, first

vars == <<pc, err, model, class_idx, img, output, class_id, labels,
          ret, arg, fetched, opened, execs, first>>

-----------------------------------------------------------------------------
(* Bounds *)

\* Number of classes the classifier scores (1000 in ImageNet).
NumClasses == 3

\* Largest width and height of an image file.
MaxSide == 6

\* Scores a class can get.
ScoreValues == {0, 1}

-----------------------------------------------------------------------------
(* Values *)

\* A name that is not bound in the namespace.
Unbound == [kind |-> "unbound"]

Classes == 0 .. (NumClasses - 1)

Digits == <<"0", "1", "2", "3", "4", "5", "6", "7", "8", "9">>

\* str(n) for n >= 0: the decimal digits, most significant first.
RECURSIVE Str(_)
Str(n) ==
    IF n < 10 THEN <<Digits[n + 1]>>
    ELSE Str(n \div 10) \o <<Digits[(n % 10) + 1]>>

\* The entry the ImageNet index holds for class i: [synset id, label].
Pair(i) == << <<"n">> \o Str(i), <<"c">> \o Str(i) >>

\* A JSON object {"<i>": [synset, label], ...} for the classes in S.
TableOf(S) ==
    [kind |-> "object",
     val  |-> [k \in {Str(i) : i \in S} |-> Pair(CHOOSE i \in S : Str(i) = k)]]

\* A JSON array [[synset, label], ...]: well-formed JSON, not the expected shape.
ArrayOf(n) == [kind |-> "array", val |-> [i \in 1 .. n |-> Pair(i - 1)]]

\* A body that is not JSON at all.
NotJson == [kind |-> "text"]

\* What the URL may serve.
Docs == {TableOf(Classes), TableOf(0 .. (NumClasses - 2)), ArrayOf(NumClasses), NotJson}

ScoreVecs == [Classes -> ScoreValues]

Names == {"img.jpg", "cat.jpg"}

Modes == {"RGB", "L"}

\* The files that may be on disk under a name.
FilesNamed(n) ==
    {[kind |-> "image", px |-> n, mode |-> m, w |-> w, h |-> h] :
        m \in Modes, w \in 1 .. MaxSide, h \in 1 .. MaxSide}

\* The pretrained weights: what the frozen network answers for each picture.
Weights == [Names -> ScoreVecs]

-----------------------------------------------------------------------------
(* The cells' code *)

\* json.loads followed by a shape check that rejects anything but an object.
JsonLoadsChecked(doc) ==
    IF doc.kind = "text" THEN [kind |-> "raise", exc |-> "JSONDecodeError"]
    ELSE IF doc.kind # "object" THEN [kind |-> "raise", exc |-> "ValueError"]
    ELSE doc

\* json.loads: a parsed value of any shape, or a JSONDecodeError.
JsonLoads(doc) ==
    IF doc.kind = "text" THEN [kind |-> "raise", exc |-> "JSONDecodeError"]
    ELSE doc

\* img.convert('RGB')
Convert(im) == [im EXCEPT !.mode = "RGB"]

\* Image.open(path) followed by img.convert('RGB')
OpenImage(f) == Convert(f)

\* int(a / b) for a >= 0, b > 0
IntDiv(a, b) == a \div b

ResizeSize == 256

CropSize == 224

\* A resize that brings the longer side to 256 instead of the shorter one.
ResizeLonger(im) ==
    IF im.w > im.h
    THEN [im EXCEPT !.w = ResizeSize, !.h = IntDiv(ResizeSize * im.h, im.w)]
    ELSE [im EXCEPT !.h = ResizeSize, !.w = IntDiv(ResizeSize * im.w, im.h)]

\* transforms.Resize(256): the shorter side becomes 256, the other one scales.
Resize(im) ==
    IF (im.w <= im.h /\ im.w = ResizeSize) \/ (im.h <= im.w /\ im.h = ResizeSize)
    THEN im
    ELSE IF im.w < im.h
         THEN [im EXCEPT !.w = ResizeSize, !.h = IntDiv(ResizeSize * im.h, im.w)]
         ELSE [im EXCEPT !.h = ResizeSize, !.w = IntDiv(ResizeSize * im.w, im.h)]

\* int(round(n / 2.)) for n >= 0: Python rounds a half to the even neighbour.
RoundHalf(n) ==
    IF n % 2 = 0 THEN n \div 2
    ELSE IF ((n - 1) \div 2) % 2 = 0 THEN (n - 1) \div 2 ELSE (n + 1) \div 2

\* transforms.CenterCrop(224): the 224x224 box around the centre.
CenterCrop(im) ==
    LET top  == RoundHalf(im.h - CropSize)
        left == RoundHalf(im.w - CropSize)
    IN  [kind |-> "image", px |-> im.px, mode |-> im.mode,
         w |-> CropSize, h |-> CropSize,
         from |-> <<im.w, im.h>>,
         box |-> <<left, top, left + CropSize, top + CropSize>>]

\* Bands of a PIL mode.
Bands(mode) == IF mode = "RGB" THEN 3 ELSE 1

\* transforms.ToTensor(): channels first, values scaled to [0, 1].
ToTensor(im) ==
    [kind |-> "tensor", shape |-> <<Bands(im.mode), im.h, im.w>>, px |-> im.px,
     from |-> im.from, box |-> im.box, norm |-> <<>>]

\* mean and std, in thousandths.
Mean == <<485, 456, 406>>

Std == <<229, 224, 225>>

\* transforms.Normalize(mean, std): per channel; the channels must match.
Normalize(t) ==
    IF t.shape[1] = Len(Mean)
    THEN [t EXCEPT !.norm = <<Mean, Std>>]
    ELSE [kind |-> "raise", exc |-> "RuntimeError"]

\* transforms.Compose([Resize, CenterCrop, ToTensor, Normalize])
Compose(im) == Normalize(ToTensor(CenterCrop(Resize(im))))

\* torch.Tensor(x).unsqueeze(0)
Unsqueeze(t) ==
    IF t.kind = "raise" THEN t ELSE [t EXCEPT !.shape = <<1>> \o t.shape]

\* def preproc(x): x = img; ...   (g is the global img the body reads)
preproc(x, g) == Unsqueeze(Compose(g))

\* resnet152(pretrained=True): a module is built in training mode.
Resnet152(w) == [kind |-> "module", weights |-> w, training |-> TRUE, tracked |-> 0]

\* .eval()
Eval(m) == [m EXCEPT !.training = FALSE]

\* The model as built, .eval() forgotten.
LoadedModelTraining(w) == Resnet152(w)

\* model = resnet152(pretrained=True).eval()
LoadedModel(w) == Eval(Resnet152(w))

\* No cell enters torch.no_grad(): autograd's default mode is in force.
GradEnabled == TRUE

\* model(t): the scores for the picture; the result is part of the autograd graph.
Forward(m, t) ==
    [kind |-> "tensor", scores |-> m.weights[t.px], requires_grad |-> GradEnabled]

\* What a forward pass leaves of the module: batch-norm statistics move in
\* training mode only.
AfterForward(m) ==
    IF m.training THEN [m EXCEPT !.tracked = m.tracked + 1] ELSE m

\* A scan that keeps the last maximum.
RECURSIVE MaxScanLast(_, _, _)
MaxScanLast(s, i, best) ==
    IF i > NumClasses - 1 THEN best
    ELSE MaxScanLast(s, i + 1, IF s[i] >= s[best] THEN i ELSE best)

ArgMaxLast(s) == MaxScanLast(s, 1, 0)

\* output.data.squeeze().max(0): scan from index 0, keep the first maximum.
RECURSIVE MaxScan(_, _, _)
MaxScan(s, i, best) ==
    IF i > NumClasses - 1 THEN best
    ELSE MaxScan(s, i + 1, IF s[i] > s[best] THEN i ELSE best)

ArgMax(s) == MaxScan(s, 1, 0)

\* class_idx.get(key): None for a missing key, no exception.
SubscriptGet(t, key) ==
    IF t.kind # "object" THEN [kind |-> "raise", exc |-> "TypeError"]
    ELSE IF key \notin DOMAIN t.val THEN [kind |-> "value", val |-> <<>>]
    ELSE [kind |-> "value", val |-> t.val[key]]

\* class_idx[key]
Subscript(t, key) ==
    IF t.kind # "object" THEN [kind |-> "raise", exc |-> "TypeError"]
    ELSE IF key \notin DOMAIN t.val THEN [kind |-> "raise", exc |-> "KeyError"]
    ELSE [kind |-> "value", val |-> t.val[key]]

\* class_idx[str(class_id)]
Lookup(t, id) == Subscript(t, Str(id))

-----------------------------------------------------------------------------
(* The notebook, top to bottom *)

\* The label table fetched again before the second image.
CellOrderRefetch ==
    <<"import", "load_model", "load_labels", "open_dog", "show", "def_preproc",
      "infer", "load_labels", "open_cat", "show", "infer">>

\* The second inference run before the second image is opened.
CellOrderStale ==
    <<"import", "load_model", "load_labels", "open_dog", "show", "def_preproc",
      "infer", "infer", "open_cat", "show">>

CellOrder ==
    <<"import", "load_model", "load_labels", "open_dog", "show", "def_preproc",
      "infer", "open_cat", "show", "infer">>

NumCells == Len(CellOrder)

\* A run that goes on after an exception.
RunningOn == TRUE

\* An uncaught exception ends the run.
Running == err = "none"

AtCell(c) == Running /\ pc <= NumCells /\ CellOrder[pc] = c

Done == [execs EXCEPT ![pc] = @ + 1]

\* The cell ran to its end.
Advance == pc' = pc + 1 /\ err' = "none" /\ execs' = Done

\* The cell raised e.
Raise(e) == pc' = pc /\ err' = e /\ execs' = Done

\* ret and arg observe the preproc call of the cell that just ran: a cell
\* that makes no call leaves nothing to observe.
NoCall == ret' = Unbound /\ arg' = Unbound

Init ==
    /\ pc = 1
    /\ err = "none"
    /\ model = Unbound
    /\ class_idx = Unbound
    /\ img = Unbound
    /\ output = Unbound
    /\ class_id = Unbound
    /\ labels = <<>>
    /\ ret = Unbound
    /\ arg = Unbound
    /\ fetched = Unbound
    /\ opened = Unbound
    /\ execs = [c \in 1 .. NumCells |-> 0]
    /\ first = Unbound

ImportCell ==
    /\ AtCell("import")
    /\ Advance
    /\ NoCall
    /\ UNCHANGED <<model, class_idx, img, output, class_id, labels,
                   fetched, opened, first>>

LoadModelCell ==
    /\ AtCell("load_model")
    /\ \/ \E w \in Weights : model' = LoadedModel(w) /\ Advance
       \/ model' = model /\ Raise("URLError")
    /\ NoCall
    /\ UNCHANGED <<class_idx, img, output, class_id, labels,
                   fetched, opened, first>>

LoadLabelsCell ==
    /\ AtCell("load_labels")
    /\ \/ \E doc \in Docs :
            /\ fetched' = doc
            /\ LET v == JsonLoads(doc)
               IN  IF v.kind = "raise"
                   THEN class_idx' = class_idx /\ Raise(v.exc)
                   ELSE class_idx' = v /\ Advance
       \/ fetched' = fetched /\ class_idx' = class_idx /\ Raise("URLError")
    /\ NoCall
    /\ UNCHANGED <<model, img, output, class_id, labels, opened, first>>

FileOf(c) == IF c = "open_dog" THEN "img.jpg" ELSE "cat.jpg"

OpenCell ==
    /\ \E c \in {"open_dog", "open_cat"} :
         /\ AtCell(c)
         /\ \/ \E f \in FilesNamed(FileOf(c)) :
                 /\ img' = OpenImage(f)
                 /\ opened' = f
                 /\ Advance
            \/ img' = img /\ opened' = opened /\ Raise("FileNotFoundError")
    /\ NoCall
    /\ UNCHANGED <<model, class_idx, output, class_id, labels,
                   fetched, first>>

ShowCell ==
    /\ AtCell("show")
    /\ Advance
    /\ NoCall
    /\ UNCHANGED <<model, class_idx, img, output, class_id, labels,
                   fetched, opened, first>>

DefPreprocCell ==
    /\ AtCell("def_preproc")
    /\ Advance
    /\ NoCall
    /\ UNCHANGED <<model, class_idx, img, output, class_id, labels,
                   fetched, opened, first>>

\* output = model(preproc(x)); m, argm = output.data.squeeze().max(0);
\* class_id = argm.item(); print(...); class_idx[str(class_id)]
\* The statements before a raise keep their effect.
Infer(x) ==
    LET t == preproc(x, img)
    IN  /\ arg' = x
        /\ ret' = t
        /\ IF t.kind = "raise"
           THEN /\ UNCHANGED <<model, output, class_id, labels>>
                /\ err' = t.exc
           ELSE LET out == Forward(model, t)
                    id  == ArgMax(out.scores)
                    v   == Lookup(class_idx, id)
                IN  /\ model' = AfterForward(model)
                    /\ output' = out
                    /\ class_id' = [kind |-> "int", val |-> id]
                    /\ IF v.kind = "raise"
                       THEN labels' = labels /\ err' = v.exc
                       ELSE labels' = Append(labels, v.val) /\ err' = "none"

InferCell ==
    /\ AtCell("infer")
    /\ Infer(img)
    /\ pc' = IF err' = "none" THEN pc + 1 ELSE pc
    /\ execs' = Done
    /\ UNCHANGED <<class_idx, img, fetched, opened, first>>

Next ==
    \/ ImportCell
    \/ LoadModelCell
    \/ LoadLabelsCell
    \/ OpenCell
    \/ ShowCell
    \/ DefPreprocCell
    \/ InferCell

Spec == Init /\ [][Next]_vars

-----------------------------------------------------------------------------
(* The namespace after the set-up cells, driven by a caller *)

\* Calls one session may make.
MaxCalls == 2

\* The pictures the caller holds: one per file, already converted.
CallFiles(n) == {f \in FilesNamed(n) : f.w = MaxSide /\ f.h = MaxSide /\ f.mode = "RGB"}

Held == {OpenImage(f) : f \in UNION {CallFiles(n) : n \in Names}}

\* The cells up to def preproc ran without an exception; the first image is open.
InitCall ==
    /\ pc = 7
    /\ err = "none"
    /\ \E w \in Weights : model = LoadedModel(w)
    /\ fetched = TableOf(Classes)
    /\ class_idx = JsonLoads(fetched)
    /\ \E f \in CallFiles("img.jpg") : opened = f /\ img = OpenImage(f)
    /\ output = Unbound
    /\ class_id = Unbound
    /\ labels = <<>>
    /\ ret = Unbound
    /\ arg = Unbound
    /\ execs = [c \in 1 .. NumCells |-> IF c < 7 THEN 1 ELSE 0]
    /\ first = Unbound

\* The caller runs one of the two image cells again.
ReopenCall ==
    /\ Running
    /\ \E n \in Names : \E f \in CallFiles(n) :
         /\ img' = OpenImage(f)
         /\ opened' = f
    /\ NoCall
    /\ UNCHANGED <<pc, err, execs, model, class_idx, output, class_id, labels,
                   fetched, first>>

\* The caller evaluates the inference cell's code on a picture x it holds.
InferCall ==
    /\ Running
    /\ Len(labels) < MaxCalls
    /\ \E x \in Held :
         /\ Infer(x)
         /\ first' = IF first = Unbound /\ output'.kind = "tensor"
                     THEN [kind |-> "call", x |-> x, scores |-> output'.scores]
                     ELSE first
    /\ UNCHANGED <<pc, execs, class_idx, img, fetched, opened>>

NextCall ==
    \/ ReopenCall
    \/ InferCall

SpecCall == InitCall /\ [][NextCall]_vars

-----------------------------------------------------------------------------
(* Properties *)

DigitVal(c) == CHOOSE d \in 0 .. 9 : Digits[d + 1] = c

\* The number a string of decimal digits denotes.
RECURSIVE ParseInt(_)
ParseInt(str) ==
    IF Len(str) = 1 THEN DigitVal(str[1])
    ELSE 10 * ParseInt(SubSeq(str, 1, Len(str) - 1)) + DigitVal(str[Len(str)])

\* k is the index of the maximum of s, the lowest one if several are maximal.
IsLowestMax(s, k) ==
    /\ k \in DOMAIN s
    /\ \A j \in DOMAIN s : s[j] <= s[k]
    /\ \A j \in DOMAIN s : j < k => s[j] < s[k]

\* The entry of table t whose key denotes index k, if v is it.
IsEntry(t, k, v) ==
    /\ t.kind = "object"
    /\ \E key \in DOMAIN t.val : ParseInt(key) = k /\ v = t.val[key]

\* The step is a run of the inference cell.
InferStep == AtCell("infer") /\ (pc' # pc \/ err' # err)

\* The picture the i-th inference cell of the notebook is about.
PictureOf(i) == IF i = 1 THEN "img.jpg" ELSE "cat.jpg"

\* C1: the tensor preproc(x) returns is the preprocessing transform of its
\* argument x, whatever the global img is bound to at the time of the call.
C1_PreprocOfArgument ==
    ret.kind = "tensor" => ret = Unsqueeze(Compose(arg))

\* C2: the resolved class_id is the index of the maximum score, the lowest
\* index on a tie, and the value the cell returns is the table's entry for
\* exactly that index.
C2_LabelResolution ==
    class_id # Unbound =>
        /\ IsLowestMax(output.scores, class_id.val)
        /\ err = "none" =>
              /\ labels # <<>>
              /\ IsEntry(class_idx, class_id.val, labels[Len(labels)])

\* C2 witness: an all-equal score vector was resolved to index 0 and its label.
C2_Witness ==
    /\ class_id # Unbound
    /\ err = "none"
    /\ \A i, j \in Classes : output.scores[i] = output.scores[j]
    /\ class_id.val = 0
    /\ labels # <<>>

\* C3: two preprocessing + inference calls on the same image, at any two
\* points of a run, give the same score vector.
C3_Deterministic ==
    (first # Unbound /\ output # Unbound /\ ret # Unbound /\ arg = first.x)
        => output.scores = first.scores

\* C4: the transform yields shape (3, 224, 224) whatever the size of the
\* input: the resized image has its shorter side at 256 and the 224x224
\* centre crop lies inside it.
C4_Shape ==
    ret # Unbound =>
        /\ ret.kind = "tensor"
        /\ Tail(ret.shape) = <<3, 224, 224>>
        /\ ret.norm = <<Mean, Std>>
        /\ (ret.from[1] = 256 /\ ret.from[2] >= 256)
             \/ (ret.from[2] = 256 /\ ret.from[1] >= 256)
        /\ 0 <= ret.box[1] /\ ret.box[3] = ret.box[1] + 224 /\ ret.box[3] <= ret.from[1]
        /\ 0 <= ret.box[2] /\ ret.box[4] = ret.box[2] + 224 /\ ret.box[4] <= ret.from[2]

\* C4 witness: a 3x5 grayscale file (the longer side scales to 426.67, cut to
\* 426) went through the transform.
C4_Witness ==
    /\ ret # Unbound
    /\ opened.w = 3 /\ opened.h = 5 /\ opened.mode = "L"
    /\ ret.from = <<256, 426>>

\* C5, as claimed: every forward evaluation runs in evaluation mode with
\* gradient tracking and parameter updates disabled.
C5_NoGradForward ==
    [][InferStep =>
         /\ ~model.training
         /\ model' = model
         /\ (output'.kind = "tensor" => ~output'.requires_grad)]_vars

\* C5, amended: every forward evaluation runs in evaluation mode and no step
\* changes the model once it is loaded; gradient tracking is not disabled,
\* the result of the forward pass is attached to the autograd graph.
C5_EvalFrozen ==
    [][/\ model # Unbound => model' = model
       /\ InferStep =>
            /\ ~model.training
            /\ (output'.kind = "tensor" => output'.requires_grad)]_vars

\* C5 witness: both inference cells ran on the loaded model.
C5_Witness ==
    /\ model # Unbound
    /\ Len(labels) = 2
    /\ pc = NumCells + 1

\* C6: the label table is populated once, before any label resolution, and
\* no later step changes it.
C6_TableFrozen ==
    [][/\ class_idx # Unbound => class_idx' = class_idx
       /\ fetched # Unbound => fetched' = fetched
       /\ AtCell("infer") => class_idx # Unbound]_vars

\* C6 witness: two label resolutions were made against the loaded table.
C6_Witness ==
    /\ class_idx # Unbound
    /\ class_id # Unbound
    /\ Len(labels) = 2

\* The shape the loader's contract expects: an object of pairs.
ExpectedShape(doc) == doc.kind = "object"

LookupErrors == {"LookupError", "KeyError", "IndexError"}

\* C8: when the argmax index has no entry in the loaded table, the label
\* resolution fails with a LookupError and returns no label pair.
C8_LookupError ==
    [][(/\ InferStep
        /\ class_idx.kind = "object"
        /\ ret'.kind = "tensor"
        /\ ~ \E key \in DOMAIN class_idx.val : ParseInt(key) = class_id'.val)
          => (err' \in LookupErrors /\ labels' = labels)]_vars

\* C8 witness: the table lacks the entry of the second image's class; the
\* first lookup had succeeded.
C8_Witness ==
    /\ err = "KeyError"
    /\ class_idx.kind = "object"
    /\ Str(class_id.val) \notin DOMAIN class_idx.val
    /\ Len(labels) = 1

\* C9: a failure of any step ends the run: nothing runs after it, and no
\* cell, the failed one included, runs twice.
C9_Fatal ==
    [][/\ err # "none" => UNCHANGED vars
       /\ \A c \in DOMAIN execs : execs'[c] <= 1
       /\ err' # "none" => \A c \in DOMAIN execs : c > pc' => execs'[c] = 0]_vars

\* C9 witness: the first inference cell failed with later cells left to run.
C9_Witness ==
    /\ err # "none"
    /\ CellOrder[pc] = "infer"
    /\ pc < NumCells
    /\ execs[pc] = 1

\* C10: in the written order every inference runs with the model and the
\* table loaded and on the image opened last: the first label is the
\* prediction for img.jpg, the second the prediction for cat.jpg.
C10_InOrder ==
    /\ \A i \in 1 .. Len(labels) :
         /\ model # Unbound
         /\ \E k \in Classes :
              /\ IsLowestMax(model.weights[PictureOf(i)], k)
              /\ IsEntry(class_idx, k, labels[i])
    /\ ret # Unbound =>
         /\ model # Unbound /\ class_idx # Unbound /\ opened # Unbound
         /\ arg = img
         /\ img = OpenImage(opened)
         /\ ret.kind = "tensor" => ret.px = opened.px

\* C10 witness: the dog and the cat got two different labels.
C10_Witness ==
    /\ Len(labels) = 2
    /\ labels[1] # labels[2]
    /\ opened.px = "cat.jpg"

====
